---------------------------- MODULE Spec2Model ----------------------------
(***************************************************************************)
(* Model of the synapse-recommender service: the data loader that          *)
(* synthesizes one rating per (user, skill) pair, the RecommendationEngine *)
(* built from it, and the three HTTP handlers of app/main.py.              *)
(*                                                                         *)
(* Numbers.  Python floats are modelled as exact scaled integers:          *)
(*   ratings and predictions   in units of 1/RatingScale (5.0 = 50000),    *)
(*   sigmoid weights           in units of 1/WeightScale,                  *)
(*   combined scores           in units of 1/ScoreScale.                   *)
(* Means and coverage are kept as fractions [num, den].                    *)
(***************************************************************************)
EXTENDS Integers, Sequences, FiniteSets, TLC

(***************************************************************************)
(* Bounds of the model.                                                    *)
(***************************************************************************)
\* Observations in the data source: user_skills rows plus done tasks.
MaxObservations == 2
\* Pairs the trained model may estimate at the top of the rating scale.
MaxHighEst == 1
\* Largest limit of a request.
MaxLimit == 2
\* Changes of the data source while the service is running.
MaxDbEvents == 1
\* In the runs of the loader: user_skills rows, and done tasks of one kind.
MaxLoadRows == 1
MaxTaskCount == 11

\* The ids in the users and skills tables.
Persons == {1, 2}
Skills == {1, 2}
Pairs == Persons \X Skills

RatingScale == 10000
WeightScale == 1000

(***************************************************************************)
(* Generic helpers.                                                        *)
(***************************************************************************)
RECURSIVE SumOver(_, _)
SumOver(S, f) ==
    IF S = {} THEN 0
    ELSE LET x == CHOOSE y \in S : TRUE
         IN f[x] + SumOver(S \ {x}, f)

RECURSIVE Lcm1To(_)
Gcd(a, b) == CHOOSE g \in 1..a : a % g = 0 /\ b % g = 0 /\
                 \A h \in 1..a : (a % h = 0 /\ b % h = 0) => h <= g
Lcm1To(n) == IF n <= 1 THEN 1
             ELSE LET l == Lcm1To(n - 1) IN (l * n) \div Gcd(l, n)

Range(s) == {s[i] : i \in DOMAIN s}

Perms(S) == {s \in [1..Cardinality(S) -> S] : Range(s) = S}

SeqsUpTo(S, n) == UNION {[1..k -> S] : k \in 0..n}

(***************************************************************************)
(* The data source (app/models.py): user_skills rows keyed by              *)
(* (user_id, skill_id), the done tasks with an assignee as a bag of        *)
(* (assignee_id, required skills), the users' availability, and whether    *)
(* DATABASE_URL is set and the database answers.                           *)
(***************************************************************************)
Proficiencies == {"beginner", "intermediate", "expert"}

UserSkillRows == [user_id : Persons, skill_id : Skills, proficiency : Proficiencies]

\* The user_skills tables of at most n rows: (user_id, skill_id) is the key.
RECURSIVE UserSkillTables(_)
UserSkillTables(n) ==
    IF n = 0 THEN {{}}
    ELSE LET keyed(t, r) == \E q \in t : q.user_id = r.user_id /\ q.skill_id = r.skill_id
         IN  UserSkillTables(n - 1) \cup
             UNION {{t \cup {r} : r \in {x \in UserSkillRows : ~keyed(t, x)}} :
                       t \in UserSkillTables(n - 1)}

TaskKinds == Persons \X (SUBSET Skills)

\* The bags of at most n done tasks.
RECURSIVE DoneTaskBags(_)
DoneTaskBags(n) ==
    IF n = 0 THEN {[k \in TaskKinds |-> 0]}
    ELSE DoneTaskBags(n - 1) \cup
         {[b EXCEPT ![k] = @ + 1] : b \in DoneTaskBags(n - 1), k \in TaskKinds}

observations(d) == Cardinality(d.user_skills) + SumOver(TaskKinds, d.done_tasks)

\* What the proficiency column can hold when it is read back as text: the
\* three labels of the ORM's enum, and "other" for any label of the
\* database's proficiency_level type that proficiency_map has no key for.
StoredProficiencies == Proficiencies \cup {"other"}

StoredUserSkillRows ==
    [user_id : Persons, skill_id : Skills, proficiency : StoredProficiencies]

RECURSIVE StoredUserSkillTables(_)
StoredUserSkillTables(n) ==
    IF n = 0 THEN {{}}
    ELSE LET keyed(t, r) == \E q \in t : q.user_id = r.user_id /\ q.skill_id = r.skill_id
         IN  StoredUserSkillTables(n - 1) \cup
             UNION {{t \cup {r} : r \in {x \in StoredUserSkillRows : ~keyed(t, x)}} :
                       t \in StoredUserSkillTables(n - 1)}

\* The bags of done tasks that all have one assignee and one set of required
\* skills, at most n of them.
OneKindTaskBags(n) ==
    {[k \in TaskKinds |-> 0]} \cup
    {[k \in TaskKinds |-> IF k = kind THEN c ELSE 0] : kind \in TaskKinds, c \in 1..n}

\* The data sources holding at most n observations, with the given settings.
Databases(n, configured, reachable, available) ==
    UNION {[configured : {configured}, reachable : {reachable},
            user_skills : UserSkillTables(i), done_tasks : DoneTaskBags(n - i),
            available : {available}] : i \in 0..n}

(***************************************************************************)
(* app/data_loader.py                                                      *)
(***************************************************************************)
NaN == -1

\* 1000 / (1 + exp(-0.5 * (t - 10))) for t = 1..25, rounded to the nearest
\* unit; from t = 26 on the value rounds to 1000.  The value at t = 10 is
\* exact: exp(-0.0) is 1.
SigmoidTable ==
    <<11, 18, 29, 47, 76, 119, 182, 269, 378, 500,
      622, 731, 818, 881, 924, 953, 971, 982, 989, 993,
      996, 998, 998, 999, 999>>

\* Faulty variant: no special case for a count of 0, where the curve is at
\* 1 / (1 + exp(5)).
get_implicit_weight_without_zero_case(task_count) ==
    IF task_count = 0 THEN 7
    ELSE IF task_count <= Len(SigmoidTable) THEN SigmoidTable[task_count]
    ELSE WeightScale

get_implicit_weight(task_count) ==
    IF task_count = 0 THEN 0
    ELSE IF task_count <= Len(SigmoidTable) THEN SigmoidTable[task_count]
    ELSE WeightScale

proficiency_map(p) ==
    CASE p = "beginner" -> 20000
      [] p = "intermediate" -> 35000
      [] p = "expert" -> 50000
      [] OTHER -> NaN

implicit_rating_value == 50000

\* explicit_df: one row per user_skills row, with the mapped anchor.
explicit_df(d) ==
    {[user_id |-> r.user_id, skill_id |-> r.skill_id,
      explicit_rating |-> proficiency_map(r.proficiency)] : r \in d.user_skills}

\* implicit_df: one row per (assignee, skill) with a done task requiring it.
implicit_df(d) ==
    {[user_id |-> p[1], skill_id |-> p[2], implicit_rating |-> implicit_rating_value] :
        p \in {q \in Pairs : \E k \in TaskKinds :
                  d.done_tasks[k] > 0 /\ k[1] = q[1] /\ q[2] \in k[2]}}

\* experience_df: done tasks per assignee; the left merge fills 0 when absent.
task_count_of(d, u) ==
    SumOver({k \in TaskKinds : k[1] = u}, d.done_tasks)

\* Faulty variant: the two weights are applied to the wrong ratings.
calculate_dynamic_rating_weights_exchanged(row) ==
    LET task_count == row.task_count
        explicit_rating == IF row.explicit_rating # NaN THEN row.explicit_rating ELSE 0
        implicit_rating == IF row.implicit_rating # NaN THEN row.implicit_rating ELSE 0
        implicit_weight == get_implicit_weight(task_count)
        explicit_weight == WeightScale - implicit_weight
    IN  IF explicit_rating = 0 THEN implicit_rating
        ELSE IF implicit_rating = 0 THEN explicit_rating
        ELSE ((implicit_weight * explicit_rating) + (explicit_weight * implicit_rating))
                 \div WeightScale

calculate_dynamic_rating(row) ==
    LET task_count == row.task_count
        explicit_rating == IF row.explicit_rating # NaN THEN row.explicit_rating ELSE 0
        implicit_rating == IF row.implicit_rating # NaN THEN row.implicit_rating ELSE 0
        implicit_weight == get_implicit_weight(task_count)
        explicit_weight == WeightScale - implicit_weight
    IN  IF explicit_rating = 0 THEN implicit_rating
        ELSE IF implicit_rating = 0 THEN explicit_rating
        ELSE ((explicit_weight * explicit_rating) + (implicit_weight * implicit_rating))
                 \div WeightScale

\* Faulty variant: how='inner', only the pairs present in both frames.
merged_df_inner_merge(d) ==
    LET keys == {<<r.user_id, r.skill_id>> : r \in explicit_df(d)} \cap
                {<<r.user_id, r.skill_id>> : r \in implicit_df(d)}
        ex(k) == (CHOOSE r \in explicit_df(d) :
                     r.user_id = k[1] /\ r.skill_id = k[2]).explicit_rating
    IN  {[user_id |-> k[1], skill_id |-> k[2], explicit_rating |-> ex(k),
          implicit_rating |-> implicit_rating_value,
          task_count |-> task_count_of(d, k[1])] : k \in keys}

\* The outer merge on (user_id, skill_id), then the left merge of task_count.
merged_df(d) ==
    LET keys == {<<r.user_id, r.skill_id>> : r \in explicit_df(d)} \cup
                {<<r.user_id, r.skill_id>> : r \in implicit_df(d)}
        ex(k) == IF \E r \in explicit_df(d) : r.user_id = k[1] /\ r.skill_id = k[2]
                 THEN (CHOOSE r \in explicit_df(d) :
                          r.user_id = k[1] /\ r.skill_id = k[2]).explicit_rating
                 ELSE NaN
        im(k) == IF \E r \in implicit_df(d) : r.user_id = k[1] /\ r.skill_id = k[2]
                 THEN implicit_rating_value
                 ELSE NaN
    IN  {[user_id |-> k[1], skill_id |-> k[2], explicit_rating |-> ex(k),
          implicit_rating |-> im(k), task_count |-> task_count_of(d, k[1])] : k \in keys}

\* The rating column, then dropna: rows whose rating is NaN are removed.
final_ratings_df(d) ==
    {r \in {[user_id |-> row.user_id, skill_id |-> row.skill_id,
              rating |-> calculate_dynamic_rating(row)] : row \in merged_df(d)} :
        r.rating # NaN}

ratings_map_of(df) ==
    [k \in {<<r.user_id, r.skill_id>> : r \in df} |->
        (CHOOSE r \in df : r.user_id = k[1] /\ r.skill_id = k[2]).rating]

EmptyLoad ==
    [raised |-> FALSE, ratings_df |-> {}, available_user_ids |-> {},
     actual_ratings_map |-> <<>>]

\* The possible results of one call of load_data_for_engine on database d.
\* DATABASE_URL unset: ValueError, raised before the try block.  Database not
\* usable: create_engine raises on a URL it cannot serve (before the try), or
\* a query raises inside the try and the except branch returns the empty
\* triple.  No observation row at all: DataFrame.apply on the empty frame
\* yields a frame, and the column assignment either raises (caught: empty
\* triple) or leaves an empty rating column, depending on the pandas build.
load_data_for_engine(d) ==
    IF ~d.configured THEN {[raised |-> TRUE]}
    ELSE IF ~d.reachable THEN {[raised |-> TRUE], EmptyLoad}
    ELSE IF merged_df(d) = {}
         THEN {EmptyLoad, [EmptyLoad EXCEPT !.available_user_ids = d.available]}
    ELSE {[raised |-> FALSE,
           ratings_df |-> final_ratings_df(d),
           available_user_ids |-> d.available,
           actual_ratings_map |-> ratings_map_of(final_ratings_df(d))]}


(***************************************************************************)
(* app/engine.py                                                           *)
(***************************************************************************)
WEIGHT_COVERAGE == 60
WEIGHT_PROFICIENCY == 30
WEIGHT_AFFINITY == 10
RATING_CEILING == 50000

\* Reader(rating_scale=(1, 5)): predictions are clipped to this range.
EstValues == {1 * RatingScale, 5 * RatingScale}

\* What SVD.fit may learn: one estimate per (user, skill), seen or unseen.
Estimators ==
    {est \in [Pairs -> EstValues] :
        Cardinality({p \in Pairs : est[p] = 5 * RatingScale}) <= MaxHighEst}

NoneValue == [kind |-> "None"]

\* SVD(...).fit(trainset): the trained model keeps its training set and the
\* estimates it has learnt.
SVD_fit(ratings, est) == [kind |-> "SVD", trainset |-> ratings, est |-> est]

user_skills_map_of(actual_ratings_map) ==
    [u \in {k[1] : k \in DOMAIN actual_ratings_map} |->
        {k[2] : k \in {q \in DOMAIN actual_ratings_map : q[1] = u}}]

\* Faulty variant: no early return, the model is fitted on whatever was loaded.
RecommendationEngine_without_empty_check(load, est) ==
    [kind |-> "RecommendationEngine",
     ratings_df |-> load.ratings_df,
     available_user_ids |-> load.available_user_ids,
     actual_ratings_map |-> load.actual_ratings_map,
     model |-> SVD_fit(load.ratings_df, est),
     user_skills_map |-> user_skills_map_of(load.actual_ratings_map)]

\* RecommendationEngine.__init__ on the loader's result: with no rating the
\* constructor returns early, model None and user_skills_map never set.
RecommendationEngine(load, est) ==
    IF load.ratings_df = {}
    THEN [kind |-> "RecommendationEngine",
          ratings_df |-> load.ratings_df,
          available_user_ids |-> load.available_user_ids,
          actual_ratings_map |-> load.actual_ratings_map,
          model |-> NoneValue]
    ELSE [kind |-> "RecommendationEngine",
          ratings_df |-> load.ratings_df,
          available_user_ids |-> load.available_user_ids,
          actual_ratings_map |-> load.actual_ratings_map,
          model |-> SVD_fit(load.ratings_df, est),
          user_skills_map |-> user_skills_map_of(load.actual_ratings_map)]

\* self.user_skills_map.get(user_id, set())
skills_of(e, user_id) ==
    IF user_id \in DOMAIN e.user_skills_map THEN e.user_skills_map[user_id] ELSE {}

\* self.actual_ratings_map.get((user_id, skill_id), 0)
rating_or_zero(e, user_id, skill_id) ==
    IF <<user_id, skill_id>> \in DOMAIN e.actual_ratings_map
    THEN e.actual_ratings_map[<<user_id, skill_id>>] ELSE 0

\* self.model.predict(uid, iid).est
predict(model, user_id, skill_id) == model.est[<<user_id, skill_id>>]

\* Faulty variant: the pool is drawn from every rated user, available or not.
candidate_pool_ignoring_availability(e, required_skills) ==
    {u \in DOMAIN e.user_skills_map : required_skills \cap skills_of(e, u) # {}}

candidate_pool(e, required_skills) ==
    {u \in e.available_user_ids : required_skills \cap skills_of(e, u) # {}}

\* Faulty variant: the affinity is averaged over the matched skills only.
features_affinity_over_matched(e, user_id, required_skills) ==
    LET matched_skills == required_skills \cap skills_of(e, user_id)
    IN  [skill_coverage |->
            [num |-> Cardinality(matched_skills), den |-> Cardinality(required_skills)],
         avg_proficiency |->
            [num |-> SumOver(matched_skills,
                        [s \in matched_skills |-> rating_or_zero(e, user_id, s)]),
             den |-> Cardinality(matched_skills)],
         affinity_score |->
            [num |-> SumOver(matched_skills,
                        [s \in matched_skills |-> predict(e.model, user_id, s)]),
             den |-> Cardinality(matched_skills)]]

\* The three features of one candidate, each a fraction num/den.
features(e, user_id, required_skills) ==
    LET matched_skills == required_skills \cap skills_of(e, user_id)
    IN  [skill_coverage |->
            [num |-> Cardinality(matched_skills), den |-> Cardinality(required_skills)],
         avg_proficiency |->
            [num |-> SumOver(matched_skills,
                        [s \in matched_skills |-> rating_or_zero(e, user_id, s)]),
             den |-> Cardinality(matched_skills)],
         affinity_score |->
            [num |-> SumOver(required_skills,
                        [s \in required_skills |-> predict(e.model, user_id, s)]),
             den |-> Cardinality(required_skills)]]

\* The common denominator of every fraction a request can produce.
FractionLcm == Lcm1To(Cardinality(Skills))

\* One unit of score: 1 / (100 * RATING_CEILING * FractionLcm).
ScoreScale == 100 * RATING_CEILING * FractionLcm

\* Faulty variant: the weights of coverage and proficiency are exchanged.
final_score_weights_exchanged(details) ==
    (WEIGHT_PROFICIENCY * RATING_CEILING * FractionLcm * details.skill_coverage.num)
          \div details.skill_coverage.den
    + (WEIGHT_COVERAGE * FractionLcm * details.avg_proficiency.num)
          \div details.avg_proficiency.den
    + (WEIGHT_AFFINITY * FractionLcm * details.affinity_score.num)
          \div details.affinity_score.den

\* WEIGHT_COVERAGE * coverage + WEIGHT_PROFICIENCY * (proficiency / 5.0)
\*   + WEIGHT_AFFINITY * (affinity / 5.0), in units of 1/ScoreScale.
final_score(details) ==
    (WEIGHT_COVERAGE * RATING_CEILING * FractionLcm * details.skill_coverage.num)
          \div details.skill_coverage.den
    + (WEIGHT_PROFICIENCY * FractionLcm * details.avg_proficiency.num)
          \div details.avg_proficiency.den
    + (WEIGHT_AFFINITY * FractionLcm * details.affinity_score.num)
          \div details.affinity_score.den

recommendation_entry(e, user_id, required_skills) ==
    LET details == features(e, user_id, required_skills)
    IN  [user_id |-> user_id, score |-> final_score(details), details |-> details]

\* list.sort(key=score, reverse=True): stable, so x goes behind every entry
\* already placed whose score is at least its own.
InsertByScore(sorted, x) ==
    LET ahead == {i \in 1..Len(sorted) : sorted[i].score >= x.score}
        n == IF ahead = {} THEN 0 ELSE CHOOSE i \in ahead : \A j \in ahead : j <= i
    IN  SubSeq(sorted, 1, n) \o <<x>> \o SubSeq(sorted, n + 1, Len(sorted))

RECURSIVE sort_by_score(_)
sort_by_score(recs) ==
    IF recs = <<>> THEN <<>>
    ELSE InsertByScore(sort_by_score(SubSeq(recs, 1, Len(recs) - 1)), recs[Len(recs)])

\* recommendations[:limit]
truncate(recs, limit) ==
    SubSeq(recs, 1, IF limit < Len(recs) THEN limit ELSE Len(recs))

\* The loop over the pool in the given order: a candidate without a matched
\* skill is skipped, the others are appended.
RECURSIVE scored_in_order(_, _, _)
scored_in_order(e, required_skills, order) ==
    IF order = <<>> THEN <<>>
    ELSE LET user_id == order[Len(order)]
             before == scored_in_order(e, required_skills,
                                       SubSeq(order, 1, Len(order) - 1))
         IN  IF required_skills \cap skills_of(e, user_id) = {}
             THEN before
             ELSE Append(before, recommendation_entry(e, user_id, required_skills))

\* Faulty variant: the limit is applied to the pool before it is sorted.
ranked_in_order_truncating_first(e, required_skills, order, limit) ==
    sort_by_score(truncate(scored_in_order(e, required_skills, order), limit))

\* get_recommendations with the candidate pool iterated in the given order.
ranked_in_order(e, required_skills, order, limit) ==
    truncate(sort_by_score(scored_in_order(e, required_skills, order)), limit)

\* The orders a Python build may give to the iteration over sets of user
\* ids: any order of the members of each set.
SetOrders ==
    {f \in [SUBSET Persons -> UNION {Perms(S) : S \in SUBSET Persons}] :
        \A S \in SUBSET Persons : f[S] \in Perms(S)}

\* get_recommendations, the candidate pool being a Python set that is
\* iterated in the order given for it.
get_recommendations(e, skill_ids, limit, order_of) ==
    LET required_skills == Range(skill_ids)
    IN  IF e.model.kind = "None" THEN <<>>
        ELSE IF required_skills = {} THEN <<>>
        ELSE ranked_in_order(e, required_skills,
                             order_of[candidate_pool(e, required_skills)], limit)


(***************************************************************************)
(* app/schemas.py and app/security.py                                      *)
(***************************************************************************)
\* Recommendation(user_id, score): the response model keeps these two fields
\* of each entry and nothing else.
Recommendation(entry) == [user_id |-> entry.user_id, score |-> entry.score]

RecommendationResponse(recs) ==
    [recommendations |-> [i \in 1..Len(recs) |-> Recommendation(recs[i])]]

\* Faulty variant: the schema also demands at least one skill id.
valid_request_demanding_skills(skill_ids, limit) ==
    limit > 0 /\ limit <= 50 /\ skill_ids # <<>>

\* RecommendationRequest: any list of skill ids, and 0 < limit <= 50.
valid_request(skill_ids, limit) == limit > 0 /\ limit <= 50

(***************************************************************************)
(* The service (app/main.py).                                              *)
(*   db         the data source; reachable is false while the database     *)
(*              cannot be used (it does not answer, or its URL is unusable) *)
(*   phase      "starting" before the lifespan handler has run, "serving"  *)
(*              while requests are handled, "stopped" after shutdown       *)
(*   engine     lifespan_context.get("engine")                             *)
(*   response   the outcome of the last request handled                    *)
(*   reads      what the get_recommendations call of the request being     *)
(*              answered read of the engine, and what it returned          *)
(*   published  every trained engine state the lifespan context was given  *)
(*   log        the error records app/main.py has written                  *)
(*   db_events  number of changes of the data source while serving         *)
(*   set_order  the order in which this interpreter iterates over each set  *)
(*              of user ids: fixed for the life of the process, the same    *)
(*              set built the same way is iterated the same way             *)
(* Each handler is an `async def` without an await, so the event loop runs *)
(* it to completion: one action per handler, and the next request is taken *)
(* up once the response of the last one has been sent.                     *)
(***************************************************************************)
VARIABLES db, phase, engine, response, reads, published, log, db_events, set_order

vars == <<db, phase, engine, response, reads, published, log, db_events, set_order>>

NoResponse == [op |-> "none", status |-> 0]

NoReads == [kind |-> "None"]

idle == phase = "serving" /\ response = NoResponse

has_engine == engine.kind # "None"

\* bool(engine and engine.model)
model_ready == has_engine /\ engine.model.kind # "None"

live_state(e) ==
    [available_user_ids |-> e.available_user_ids,
     user_skills_map |-> e.user_skills_map,
     actual_ratings_map |-> e.actual_ratings_map,
     model |-> e.model]

\* Faulty variant: no try/except around the constructor, so an exception of
\* the loader ends the startup.
lifespan_startup_without_except ==
    /\ phase = "starting"
    /\ \E load \in load_data_for_engine(db), est \in Estimators :
          IF load.raised
          THEN /\ phase' = "crashed"
               /\ UNCHANGED <<engine, published, log>>
          ELSE /\ phase' = "serving"
               /\ engine' = RecommendationEngine(load, est)
               /\ published' = IF load.ratings_df = {} THEN published
                               ELSE published \cup
                                    {live_state(RecommendationEngine(load, est))}
               /\ UNCHANGED log
    /\ UNCHANGED <<db, response, reads, db_events, set_order>>

\* lifespan, startup half: build the engine; any exception leaves None.
lifespan_startup ==
    /\ phase = "starting"
    /\ \E load \in load_data_for_engine(db), est \in Estimators :
          /\ engine' = IF load.raised THEN NoneValue
                       ELSE RecommendationEngine(load, est)
          /\ published' = IF load.raised \/ load.ratings_df = {} THEN published
                          ELSE published \cup {live_state(RecommendationEngine(load, est))}
          /\ log' = IF load.raised THEN log \cup {"Engine initialization failed"}
                    ELSE log
    /\ phase' = "serving"
    /\ UNCHANGED <<db, response, reads, db_events, set_order>>

\* lifespan, shutdown half: lifespan_context.clear().
lifespan_shutdown ==
    /\ idle
    /\ phase' = "stopped"
    /\ engine' = NoneValue
    /\ UNCHANGED <<db, response, reads, published, log, db_events, set_order>>

health_check ==
    /\ idle
    /\ LET db_ok == db.configured /\ db.reachable
       IN  /\ response' =
                [op |-> "health",
                 status |-> IF model_ready /\ db_ok THEN 200 ELSE 503,
                 model_ready |-> model_ready,
                 database_connected |-> db_ok]
           /\ log' = IF db_ok THEN log ELSE log \cup {"Database health check failed"}
    /\ UNCHANGED <<db, phase, engine, reads, published, db_events, set_order>>

EngineNotAvailable ==
    "Recommendation engine is not available or failed to initialize."

\* Faulty variant: the guard tests the engine only, not its model.
recommend_engineers_testing_engine_only(skill_ids, limit, authorized) ==
    /\ idle
    /\ IF ~authorized
       THEN /\ response' = [op |-> "recommend", status |-> 401]
            /\ UNCHANGED reads
       ELSE IF ~valid_request(skill_ids, limit)
       THEN /\ response' = [op |-> "recommend", status |-> 422,
                            skill_ids |-> skill_ids, limit |-> limit]
            /\ UNCHANGED reads
       ELSE IF ~has_engine
       THEN /\ response' = [op |-> "recommend", status |-> 503,
                            skill_ids |-> skill_ids, limit |-> limit,
                            detail |-> EngineNotAvailable]
            /\ UNCHANGED reads
       ELSE LET recommendations ==
                    get_recommendations(engine, skill_ids, limit, set_order)
            IN /\ response' = [op |-> "recommend", status |-> 200,
                               skill_ids |-> skill_ids, limit |-> limit,
                               body |-> RecommendationResponse(recommendations)]
               /\ reads' = [state |-> engine, returned |-> recommendations]
    /\ UNCHANGED <<db, phase, engine, published, log, db_events, set_order>>

\* Faulty variant: the skills index is read with user_skills_map[user_id], and
\* the defaultdict gains a key for every available user it did not have.
recommend_engineers_indexing_user_skills_map(skill_ids, limit, authorized) ==
    /\ idle
    /\ IF ~authorized
       THEN /\ response' = [op |-> "recommend", status |-> 401]
            /\ UNCHANGED <<reads, engine>>
       ELSE IF ~valid_request(skill_ids, limit)
       THEN /\ response' = [op |-> "recommend", status |-> 422,
                            skill_ids |-> skill_ids, limit |-> limit]
            /\ UNCHANGED <<reads, engine>>
       ELSE IF ~has_engine \/ engine.model.kind = "None"
       THEN /\ response' = [op |-> "recommend", status |-> 503,
                            skill_ids |-> skill_ids, limit |-> limit,
                            detail |-> EngineNotAvailable]
            /\ UNCHANGED <<reads, engine>>
       ELSE LET recommendations ==
                    get_recommendations(engine, skill_ids, limit, set_order)
                touched == IF Range(skill_ids) = {} THEN {}
                           ELSE engine.available_user_ids
            IN /\ response' = [op |-> "recommend", status |-> 200,
                               skill_ids |-> skill_ids, limit |-> limit,
                               body |-> RecommendationResponse(recommendations)]
               /\ reads' = [state |-> live_state(engine),
                            returned |-> recommendations]
               /\ engine' = [engine EXCEPT !.user_skills_map =
                                [u \in DOMAIN engine.user_skills_map \cup touched |->
                                    skills_of(engine, u)]]
    /\ UNCHANGED <<db, phase, published, log, db_events, set_order>>

recommend_engineers(skill_ids, limit, authorized) ==
    /\ idle
    /\ IF ~authorized
       THEN /\ response' = [op |-> "recommend", status |-> 401]
            /\ UNCHANGED reads
       ELSE IF ~valid_request(skill_ids, limit)
       THEN /\ response' = [op |-> "recommend", status |-> 422,
                            skill_ids |-> skill_ids, limit |-> limit]
            /\ UNCHANGED reads
       ELSE IF ~has_engine \/ engine.model.kind = "None"
       THEN /\ response' = [op |-> "recommend", status |-> 503,
                            skill_ids |-> skill_ids, limit |-> limit,
                            detail |-> EngineNotAvailable]
            /\ UNCHANGED reads
       ELSE LET recommendations ==
                    get_recommendations(engine, skill_ids, limit, set_order)
            IN /\ response' = [op |-> "recommend", status |-> 200,
                               skill_ids |-> skill_ids, limit |-> limit,
                               body |-> RecommendationResponse(recommendations)]
               /\ reads' = [state |-> live_state(engine),
                            returned |-> recommendations]
    /\ UNCHANGED <<db, phase, engine, published, log, db_events, set_order>>

\* The methods class RecommendationEngine defines.
EngineMethods == {"__init__", "get_recommendations"}

\* Faulty variant: the handler clears the model before it asks the engine to
\* refresh, and the failure leaves it cleared.
trigger_model_refresh_clearing_model(authorized) ==
    /\ idle
    /\ IF ~authorized
       THEN /\ response' = [op |-> "refresh", status |-> 401]
            /\ UNCHANGED <<engine, log>>
       ELSE IF ~has_engine
       THEN /\ response' = [op |-> "refresh", status |-> 503,
                            detail |-> "Recommendation engine is not available."]
            /\ UNCHANGED <<engine, log>>
       ELSE /\ response' = [op |-> "refresh", status |-> 500,
                            detail |-> "An error occurred while refreshing the model."]
            /\ engine' = [engine EXCEPT !.model = NoneValue]
            /\ log' = log \cup {"Failed to trigger model refresh"}
    /\ UNCHANGED <<db, phase, reads, published, db_events, set_order>>

\* Faulty variant: a refresh that reloads the ratings into the live engine in
\* place and keeps the model and the skills index it had.
trigger_model_refresh_in_place(authorized) ==
    /\ idle
    /\ IF ~authorized
       THEN /\ response' = [op |-> "refresh", status |-> 401]
            /\ UNCHANGED <<engine, log>>
       ELSE IF ~has_engine
       THEN /\ response' = [op |-> "refresh", status |-> 503,
                            detail |-> "Recommendation engine is not available."]
            /\ UNCHANGED <<engine, log>>
       ELSE \E load \in load_data_for_engine(db) :
               IF load.raised \/ ~model_ready
               THEN /\ response' =
                          [op |-> "refresh", status |-> 500,
                           detail |-> "An error occurred while refreshing the model."]
                    /\ log' = log \cup {"Failed to trigger model refresh"}
                    /\ UNCHANGED engine
               ELSE /\ response' = [op |-> "refresh", status |-> 202,
                                    detail |-> "Model refresh initiated."]
                    /\ engine' = [engine EXCEPT
                                     !.ratings_df = load.ratings_df,
                                     !.available_user_ids = load.available_user_ids,
                                     !.actual_ratings_map = load.actual_ratings_map]
                    /\ UNCHANGED log
    /\ UNCHANGED <<db, phase, reads, published, db_events, set_order>>

\* engine.refresh_model(): the attribute lookup raises AttributeError when the
\* class has no such method, before anything of the engine is touched.
trigger_model_refresh(authorized) ==
    /\ idle
    /\ IF ~authorized
       THEN /\ response' = [op |-> "refresh", status |-> 401]
            /\ UNCHANGED log
       ELSE IF ~has_engine
       THEN /\ response' = [op |-> "refresh", status |-> 503,
                            detail |-> "Recommendation engine is not available."]
            /\ UNCHANGED log
       ELSE IF "refresh_model" \notin EngineMethods
       THEN /\ response' = [op |-> "refresh", status |-> 500,
                            detail |-> "An error occurred while refreshing the model."]
            /\ log' = log \cup {"Failed to trigger model refresh"}
       ELSE /\ response' = [op |-> "refresh", status |-> 202,
                            detail |-> "Model refresh initiated."]
            /\ UNCHANGED log
    /\ UNCHANGED <<db, phase, engine, reads, published, db_events, set_order>>

\* The response leaves the service and the handler's locals are dropped; the
\* event loop takes the next request.
send_response ==
    /\ phase = "serving"
    /\ response # NoResponse
    /\ response' = NoResponse
    /\ reads' = NoReads
    /\ UNCHANGED <<db, phase, engine, published, log, db_events, set_order>>

(***************************************************************************)
(* The environment: the data source changes under the running service.     *)
(***************************************************************************)
db_event(new_db) ==
    /\ idle
    /\ db_events < MaxDbEvents
    /\ new_db # db
    /\ db' = new_db
    /\ db_events' = db_events + 1
    /\ UNCHANGED <<phase, engine, response, reads, published, log, set_order>>

DbOutage == db_event([db EXCEPT !.reachable = FALSE])

DbRestore == db_event([db EXCEPT !.reachable = TRUE])

\* TRUNCATE of users, user_skills, tasks and task_required_skills
\* (scripts/seed_data.py, clear_data).
DbWipe ==
    db_event([db EXCEPT !.user_skills = {},
                        !.done_tasks = [k \in TaskKinds |-> 0],
                        !.available = {}])

DbDeclareSkill ==
    \E r \in UserSkillRows :
        /\ observations(db) < MaxObservations
        /\ \A q \in db.user_skills : ~(q.user_id = r.user_id /\ q.skill_id = r.skill_id)
        /\ db_event([db EXCEPT !.user_skills = @ \cup {r}])

\* Requests: up to one id per known skill, repeats included; a limit of 0
\* is what the request schema rejects.
Requests ==
    (SeqsUpTo(Skills, Cardinality(Skills)) \X (1..MaxLimit)) \cup {<<<<>>, 0>>}

\* The service starts against a data source that is not configured (and so
\* names no database), or one where every user is available and at most one
\* observation has been recorded; the rest arrives while it runs.
InitialDatabases ==
    Databases(0, FALSE, FALSE, {}) \cup
    UNION {Databases(1, TRUE, r, Persons) : r \in BOOLEAN}

\* The ranking runs start from every data source that answers.
RankingDatabases ==
    UNION {Databases(MaxObservations, TRUE, TRUE, a) : a \in SUBSET Persons}

Init ==
    /\ db \in InitialDatabases
    /\ phase = "starting"
    /\ engine = NoneValue
    /\ response = NoResponse
    /\ reads = NoReads
    /\ published = {}
    /\ log = {}
    /\ db_events = 0
    /\ set_order \in SetOrders

Next ==
    \/ lifespan_startup
    \/ lifespan_shutdown
    \/ health_check
    \/ \E rq \in Requests, a \in BOOLEAN : recommend_engineers(rq[1], rq[2], a)
    \/ \E a \in BOOLEAN : trigger_model_refresh(a)
    \/ send_response
    \/ DbOutage
    \/ DbRestore
    \/ DbWipe
    \/ DbDeclareSkill

Spec == Init /\ [][Next]_vars

\* The ranking runs: any data source at startup, and then only requests.
InitRank ==
    /\ db \in RankingDatabases
    /\ phase = "starting"
    /\ engine = NoneValue
    /\ response = NoResponse
    /\ reads = NoReads
    /\ published = {}
    /\ log = {}
    /\ db_events = 0
    /\ set_order \in SetOrders

NextRank ==
    \/ lifespan_startup
    \/ \E rq \in Requests, a \in BOOLEAN : recommend_engineers(rq[1], rq[2], a)
    \/ send_response

SpecRank == InitRank /\ [][NextRank]_vars

\* The loader runs: a data source that answers, with any stored proficiency
\* label and up to MaxTaskCount done tasks, is loaded once at startup.
LoadDatabases ==
    [configured : {TRUE}, reachable : {TRUE},
     user_skills : StoredUserSkillTables(MaxLoadRows),
     done_tasks : OneKindTaskBags(MaxTaskCount),
     available : {Persons}]

InitLoad ==
    /\ db \in LoadDatabases
    /\ phase = "starting"
    /\ engine = NoneValue
    /\ response = NoResponse
    /\ reads = NoReads
    /\ published = {}
    /\ log = {}
    /\ db_events = 0
    /\ set_order \in SetOrders

NextLoad == lifespan_startup

SpecLoad == InitLoad /\ [][NextLoad]_vars


(***************************************************************************)
(* Properties.                                                             *)
(***************************************************************************)
\* A load of data source d would give the engine at least one rating.
yields_ratings(d) ==
    \E load \in load_data_for_engine(d) : ~load.raised /\ load.ratings_df # {}

\* The engines a construction from data source d can give.
built_from(d) ==
    {RecommendationEngine(load, est) :
        load \in {l \in load_data_for_engine(d) : ~l.raised}, est \in Estimators}

answered(op) == response.op = op /\ response.status = 200

\* C1: on a ready engine, a refresh request that arrives when the data source
\* is empty or does not answer is reported as a failure and leaves the whole
\* engine (ratings, rating map, skills index, available users, model) as it
\* was, so the engine stays ready.
C1_FailedRefreshKeepsLiveState ==
    [][(/\ response = NoResponse
        /\ response'.op = "refresh"
        /\ model_ready
        /\ ~yields_ratings(db))
       => (/\ response'.status >= 400
           /\ engine' = engine
           /\ engine'.model.kind = "SVD")]_vars

C1_Witness ==
    /\ response.op = "refresh"
    /\ response.status = 500
    /\ model_ready
    /\ db_events > 0
    /\ ~yields_ratings(db)

\* C2: on a ready engine, an authorized refresh request that arrives when the
\* data source answers with at least one rating is reported as accepted, and
\* the engine is then the one built from the data source as it is at that
\* moment.
C2_RefreshPublishesCurrentData ==
    [][(/\ response = NoResponse
        /\ response'.op = "refresh"
        /\ response'.status # 401
        /\ model_ready
        /\ yields_ratings(db))
       => (/\ response'.status = 202
           /\ engine' \in built_from(db))]_vars

\* C3: whatever refresh requests came before it, every answered recommend
\* request has read available users, skills index, rating map and model of
\* one and the same state given to the lifespan context.
C3_RecommendReadsOnePublishedState ==
    answered("recommend") => reads.state \in published

C3_Witness ==
    /\ answered("recommend")
    /\ response.body.recommendations # <<>>
    /\ "Failed to trigger model refresh" \in log
    /\ db_events > 0
    /\ yields_ratings(db)
    /\ engine \notin built_from(db)

\* C4: the readiness report is true only if the engine holds a model trained
\* on its ratings and those ratings are not empty; with no engine (the
\* construction raised) or an engine without ratings it is false.
C4_ReadyOnlyWithModelAndRatings ==
    /\ model_ready =>
          /\ engine.model.kind = "SVD"
          /\ engine.ratings_df # {}
          /\ engine.model.trainset = engine.ratings_df
    /\ response.op = "health" =>
          (response.model_ready <=> (has_engine /\ engine.ratings_df # {}))

C4_Witness ==
    /\ response.op = "health"
    /\ response.model_ready
    /\ response.status = 200

\* C5: an engine constructed from zero ratings is not ready, and every
\* recommend or refresh request it gets is answered with an error status,
\* without a ranking having been computed and with the engine unchanged.
C5_EmptyEngineOnlyAnswersErrors ==
    [][(/\ has_engine
        /\ engine.ratings_df = {}
        /\ response = NoResponse
        /\ response'.op \in {"recommend", "refresh"})
       => (/\ ~model_ready
           /\ response'.status \in {401, 422, 500, 503}
           /\ reads' = NoReads
           /\ engine' = engine)]_vars

C5_Witness ==
    /\ has_engine
    /\ engine.ratings_df = {}
    /\ db.configured /\ db.reachable
    /\ response.op = "refresh"
    /\ response.status = 500

\* C6: a startup against a data source that is not configured or does not
\* answer ends with the service serving and the engine not ready, and a
\* recommend request to an engine that is not ready gets the 503 "not
\* available" answer.
C6_StartupSurvivesMissingDataSource ==
    /\ [][(/\ phase = "starting"
           /\ phase' # "starting"
           /\ (~db.configured \/ ~db.reachable))
          => (/\ phase' = "serving"
              /\ (engine'.kind = "None" \/ engine'.model.kind = "None"))]_vars
    /\ [](( /\ phase = "serving"
            /\ ~model_ready
            /\ response.op = "recommend"
            /\ response.status \notin {401, 422})
          => (response.status = 503 /\ response.detail = EngineNotAvailable))

C6_Witness ==
    /\ ~db.configured
    /\ phase = "serving"
    /\ "Engine initialization failed" \in log
    /\ response.op = "recommend"
    /\ response.status = 503

\* The users that qualify for a request: available, and rated in at least
\* one of the required skills.
qualifying(required_skills) ==
    {u \in engine.available_user_ids :
        \E s \in required_skills : <<u, s>> \in DOMAIN engine.actual_ratings_map}

score_of(u, required_skills) == recommendation_entry(engine, u, required_skills).score

\* C7: the answer to a request with n qualifying candidates has min(limit, n)
\* entries, one per user, each with that user's score, in non-increasing
\* order of score, and no qualifying candidate left out has a higher score
\* than one that was returned.
C7_TopOfTheSortedCandidates ==
    (answered("recommend") /\ Range(response.skill_ids) # {}) =>
        LET required == Range(response.skill_ids)
            recs == response.body.recommendations
            n == Cardinality(qualifying(required))
            returned == {recs[i].user_id : i \in DOMAIN recs}
        IN  /\ Len(recs) = IF response.limit < n THEN response.limit ELSE n
            /\ Len(recs) <= response.limit
            /\ \A i, j \in DOMAIN recs : i < j => recs[i].score >= recs[j].score
            /\ \A i, j \in DOMAIN recs : i # j => recs[i].user_id # recs[j].user_id
            /\ \A i \in DOMAIN recs :
                  /\ recs[i].user_id \in qualifying(required)
                  /\ recs[i].score = score_of(recs[i].user_id, required)
            /\ \A u \in qualifying(required) \ returned :
                  \A i \in DOMAIN recs : score_of(u, required) <= recs[i].score

C7_Witness ==
    /\ answered("recommend")
    /\ response.limit = 1
    /\ Cardinality(qualifying(Range(response.skill_ids))) = 2
    /\ \E u \in qualifying(Range(response.skill_ids)) :
          score_of(u, Range(response.skill_ids))
              < response.body.recommendations[1].score

\* C8: every user in an answer is available and is rated in at least one of
\* the required skills, whatever the model estimates for the others.
C8_OnlyAvailableUsersWithARequiredSkill ==
    answered("recommend") =>
        \A i \in DOMAIN response.body.recommendations :
            LET u == response.body.recommendations[i].user_id
            IN  /\ u \in engine.available_user_ids
                /\ \E s \in Range(response.skill_ids) :
                      <<u, s>> \in DOMAIN engine.actual_ratings_map

C8_Witness ==
    /\ answered("recommend")
    /\ response.body.recommendations # <<>>
    /\ \E u \in Persons :
          /\ \A i \in DOMAIN response.body.recommendations :
                response.body.recommendations[i].user_id # u
          /\ u \notin engine.available_user_ids
          /\ \E s \in Range(response.skill_ids) :
                /\ <<u, s>> \in DOMAIN engine.actual_ratings_map
                /\ predict(engine.model, u, s) = 5 * RatingScale

\* C9: get_recommendations returns the empty list for a request without skill
\* ids, whatever the engine holds, and the request is answered with status
\* 200 and an empty list by an engine that is ready.
C9_NoSkillsGiveAnEmptyResult ==
    /\ has_engine =>
          \A limit \in 1..MaxLimit :
              get_recommendations(engine, <<>>, limit, set_order) = <<>>
    /\ ( /\ response.op = "recommend"
         /\ response.status # 401
         /\ model_ready
         /\ response.skill_ids = <<>>
         /\ response.limit >= 1)
       => (response.status = 200 /\ response.body.recommendations = <<>>)

C9_Witness ==
    /\ answered("recommend")
    /\ response.skill_ids = <<>>
    /\ response.body.recommendations = <<>>
    /\ engine.available_user_ids \cap DOMAIN engine.user_skills_map # {}

\* C10: every entry of an answer carries, besides user id and score, the
\* three sub-scores (coverage, proficiency, affinity) its score was computed
\* from.
C10_AnswerCarriesSubScores ==
    answered("recommend") =>
        \A i \in DOMAIN response.body.recommendations :
            LET entry == response.body.recommendations[i]
            IN  /\ "details" \in DOMAIN entry
                /\ DOMAIN entry.details =
                      {"skill_coverage", "avg_proficiency", "affinity_score"}
                /\ entry.score = final_score(entry.details)

\* Fractions a/b and c/d compared without dividing.
frac_eq(x, y) == x.num * y.den = y.num * x.den

frac_gt(x, y) == x.num * y.den > y.num * x.den

\* C11: the score of every candidate get_recommendations returns is
\* 0.6 * coverage + 0.3 * (proficiency / 5.0) + 0.1 * (affinity / 5.0), the
\* three weights add up to 1, and of two candidates of one answer with equal
\* proficiency and equal affinity the one with the larger coverage has the
\* strictly larger score; coverage 1 and 1/2 at proficiency 5.0 and affinity
\* 5.0 score 1.0 and 0.7.
C11_ScoreIsTheWeightedSum ==
    /\ WEIGHT_COVERAGE + WEIGHT_PROFICIENCY + WEIGHT_AFFINITY = 100
    /\ LET top == [num |-> 5 * RatingScale, den |-> 1]
           at(c) == [skill_coverage |-> c, avg_proficiency |-> top,
                     affinity_score |-> top]
       IN  /\ final_score(at([num |-> 1, den |-> 1])) = ScoreScale
           /\ 10 * final_score(at([num |-> 1, den |-> 2])) = 7 * ScoreScale
    /\ answered("recommend") =>
          /\ \A i \in DOMAIN reads.returned :
                LET x == reads.returned[i]
                    c == x.details.skill_coverage
                    p == x.details.avg_proficiency
                    a == x.details.affinity_score
                IN  x.score * c.den * p.den * a.den =
                        FractionLcm * ( 60 * 5 * RatingScale * c.num * p.den * a.den
                                        + 30 * p.num * c.den * a.den
                                        + 10 * a.num * c.den * p.den )
          /\ \A i, j \in DOMAIN reads.returned :
                LET x == reads.returned[i]
                    y == reads.returned[j]
                IN  ( /\ frac_eq(x.details.avg_proficiency, y.details.avg_proficiency)
                      /\ frac_eq(x.details.affinity_score, y.details.affinity_score)
                      /\ frac_gt(x.details.skill_coverage, y.details.skill_coverage) )
                    => x.score > y.score

C11_Witness ==
    /\ answered("recommend")
    /\ Len(reads.returned) = 2
    /\ LET x == reads.returned[1]
           y == reads.returned[2]
       IN  /\ frac_eq(x.details.avg_proficiency, y.details.avg_proficiency)
           /\ x.details.avg_proficiency.num =
                 5 * RatingScale * x.details.avg_proficiency.den
           /\ frac_eq(x.details.affinity_score, y.details.affinity_score)
           /\ x.details.skill_coverage = [num |-> 2, den |-> 2]
           /\ y.details.skill_coverage = [num |-> 1, den |-> 2]
           /\ x.score > y.score

\* The pairs with an explicit observation, and with an implicit one.
explicit_pairs(d) == {<<r.user_id, r.skill_id>> : r \in d.user_skills}

implicit_pairs(d) ==
    {q \in Pairs : \E k \in TaskKinds :
        d.done_tasks[k] > 0 /\ k[1] = q[1] /\ q[2] \in k[2]}

\* The engine holds what one load of the data source gave it.
loaded == phase = "serving" /\ has_engine

rated_pairs == {<<r.user_id, r.skill_id>> : r \in engine.ratings_df}

\* C12: the loader emits a rating for a (user, skill) pair if and only if the
\* pair has a user_skills row or a done task of the user requiring the skill,
\* one rating per pair, and the rating map has the same keys and values.
C12_OneRatingPerObservedPair ==
    loaded =>
        /\ rated_pairs = explicit_pairs(db) \cup implicit_pairs(db)
        /\ \A r1, r2 \in engine.ratings_df :
              (r1.user_id = r2.user_id /\ r1.skill_id = r2.skill_id) => r1 = r2
        /\ DOMAIN engine.actual_ratings_map = rated_pairs
        /\ \A r \in engine.ratings_df :
              engine.actual_ratings_map[<<r.user_id, r.skill_id>>] = r.rating

C12_Witness ==
    /\ loaded
    /\ explicit_pairs(db) \ implicit_pairs(db) # {}
    /\ implicit_pairs(db) \ explicit_pairs(db) # {}
    /\ Cardinality(engine.ratings_df) = 3

\* The proficiency label of the user_skills row of pair q.
label_of(d, q) ==
    (CHOOSE r \in d.user_skills : r.user_id = q[1] /\ r.skill_id = q[2]).proficiency

\* The pairs whose user_skills row carries one of the three labels that have
\* an anchor.
anchored_pairs(d) ==
    {q \in explicit_pairs(d) : label_of(d, q) \in Proficiencies}

\* 2.0, 3.5 and 5.0 in units of 1/RatingScale.
anchor_of(label) ==
    IF label = "beginner" THEN 2 * RatingScale
    ELSE IF label = "intermediate" THEN (7 * RatingScale) \div 2
    ELSE 5 * RatingScale

\* Tasks with status done assigned to user u.
completed_work(d, u) ==
    SumOver({k \in TaskKinds : k[1] = u}, d.done_tasks)

\* C13: a pair with an anchored explicit observation only is rated with the
\* anchor (2.0, 3.5 or 5.0); a pair with an implicit observation only is
\* rated 5.0; a pair with both is rated (1 - w) * anchor + w * 5.0, w being
\* the implicit weight of the number of done tasks of the user; beginner with
\* 10 done tasks gives 3.5.
C13_RatingFollowsThePolicy ==
    loaded =>
        \A r \in engine.ratings_df :
            LET q == <<r.user_id, r.skill_id>>
                explicit == q \in anchored_pairs(db)
                implicit == q \in implicit_pairs(db)
                w == get_implicit_weight(completed_work(db, r.user_id))
            IN  /\ (explicit /\ ~implicit) => r.rating = anchor_of(label_of(db, q))
                /\ (implicit /\ ~explicit) => r.rating = 5 * RatingScale
                /\ (explicit /\ implicit) =>
                      /\ WeightScale * r.rating =
                            (WeightScale - w) * anchor_of(label_of(db, q))
                            + w * 5 * RatingScale
                      /\ ( /\ label_of(db, q) = "beginner"
                           /\ completed_work(db, r.user_id) = 10 )
                         => 2 * r.rating = 7 * RatingScale

C13_Witness ==
    /\ loaded
    /\ \E r \in engine.ratings_df :
          /\ <<r.user_id, r.skill_id>> \in anchored_pairs(db) \cap implicit_pairs(db)
          /\ label_of(db, <<r.user_id, r.skill_id>>) = "beginner"
          /\ completed_work(db, r.user_id) = 10
          /\ 2 * r.rating = 7 * RatingScale
    /\ \E r \in engine.ratings_df :
          <<r.user_id, r.skill_id>> \in implicit_pairs(db) \ explicit_pairs(db)

\* C14: the implicit weight is 0 at a count of 0 and one half at a count of
\* 10, lies between 0 and 1, and does not decrease as the count grows, over
\* the counts up to the number of done tasks a loaded user has.
C14_ImplicitWeightCurve ==
    loaded =>
        \A u \in Persons :
            LET counts == 0..completed_work(db, u)
            IN  /\ get_implicit_weight(0) = 0
                /\ 10 \in counts => 2 * get_implicit_weight(10) = WeightScale
                /\ \A t \in counts :
                      get_implicit_weight(t) >= 0 /\ get_implicit_weight(t) <= WeightScale
                /\ \A t1, t2 \in counts :
                      t1 <= t2 => get_implicit_weight(t1) <= get_implicit_weight(t2)

C14_Witness ==
    /\ loaded
    /\ \E r \in engine.ratings_df :
          /\ <<r.user_id, r.skill_id>> \in anchored_pairs(db) \cap implicit_pairs(db)
          /\ completed_work(db, r.user_id) > 10
          /\ 2 * get_implicit_weight(completed_work(db, r.user_id)) > WeightScale
          /\ r.rating < 5 * RatingScale

C16_FeaturesOfACandidate ==
    answered("recommend") =>
        \A i \in DOMAIN reads.returned :
            LET u == reads.returned[i].user_id
                details == reads.returned[i].details
                required == {s \in Skills : \E n \in DOMAIN response.skill_ids :
                                response.skill_ids[n] = s}
                index == IF u \in DOMAIN engine.user_skills_map
                         THEN engine.user_skills_map[u] ELSE {}
                matched == required \cap index
                value(s) == IF <<u, s>> \in DOMAIN engine.actual_ratings_map
                            THEN engine.actual_ratings_map[<<u, s>>] ELSE 0
            IN  /\ details.skill_coverage.num = Cardinality(matched)
                /\ details.skill_coverage.den = Cardinality(required)
                /\ details.skill_coverage.num > 0
                /\ details.skill_coverage.num <= details.skill_coverage.den
                /\ details.avg_proficiency.den = Cardinality(matched)
                /\ details.avg_proficiency.num =
                      SumOver(matched, [s \in matched |-> value(s)])
                /\ details.affinity_score.den = Cardinality(required)
                /\ details.affinity_score.num =
                      SumOver(required, [s \in required |-> engine.model.est[<<u, s>>]])

C16_Witness ==
    /\ answered("recommend")
    /\ \E i \in DOMAIN reads.returned :
          LET u == reads.returned[i].user_id
              details == reads.returned[i].details
          IN  /\ details.skill_coverage = [num |-> 1, den |-> 2]
              /\ \E s \in Range(response.skill_ids) :
                    /\ <<u, s>> \notin DOMAIN engine.actual_ratings_map
                    /\ engine.model.est[<<u, s>>] = 5 * RatingScale
              /\ details.affinity_score = [num |-> 6 * RatingScale, den |-> 2]

\* C17: a recommend request leaves the engine as it was (ratings, rating
\* map, skills index without a new key, available users, model), the answer
\* is the one the engine determines for the request both as it was before
\* and as it is after the request, so a repeated request gets the same
\* entries with the same scores, and no user appears twice in an answer.
C17_RecommendIsReadOnly ==
    [][(response = NoResponse /\ response'.op = "recommend") =>
          /\ engine' = engine
          /\ set_order' = set_order
          /\ response'.status = 200 =>
                /\ reads'.returned =
                      get_recommendations(engine, response'.skill_ids,
                                          response'.limit, set_order)
                /\ reads'.returned =
                      get_recommendations(engine', response'.skill_ids,
                                          response'.limit, set_order')
                /\ response'.body = RecommendationResponse(reads'.returned)
                /\ \A i, j \in DOMAIN reads'.returned :
                      i # j => reads'.returned[i].user_id # reads'.returned[j].user_id
                /\ DOMAIN engine'.user_skills_map =
                      {q[1] : q \in DOMAIN engine'.actual_ratings_map}]_vars

C17_Witness ==
    /\ answered("recommend")
    /\ reads.returned # <<>>
    /\ \E u \in engine.available_user_ids : u \notin DOMAIN engine.user_skills_map
    /\ \E s \in Range(response.skill_ids) :
          \A q \in DOMAIN engine.actual_ratings_map : q[2] # s

=============================================================================
